---- MODULE Spec2Model ----
(***************************************************************************)
(* Decentralized Message Board: the MessageBoard ledger contract           *)
(* (src/unnamed/part_001) and the two variants of the browser client       *)
(* (src/unnamed/part_000: the effect-based client, lines 1-242, and the    *)
(* initializeContract client, lines 245-499).                              *)
(*                                                                         *)
(* Three specifications share the ledger:                                  *)
(*   LedgerSpec  the contract alone, called directly by any account        *)
(*   Spec        the effect-based client, the wallet and the ledger        *)
(*   Spec2       the initializeContract client, the wallet and the ledger  *)
(***************************************************************************)
EXTENDS Integers, Sequences, FiniteSets, TLC

\* ------------------------------------------------------------------ bounds
\* Longest ledger history explored (submitted + mined posts).
MaxMessages == 2
\* Latest block time explored.
MaxTime == 1
\* Most connectWallet calls awaiting the wallet at once.
MaxConnects == 1

\* ------------------------------------------------------------------ inputs
NULL == "null"
Accounts == {"A", "B"}
\* Text is a sequence of characters; " " is whitespace.
Whitespace == {" "}
\* What the composer can hold: empty, blank, and padded text.
Contents == {<<>>, <<" ">>, <<" ", "w">>}
\* The other users of the board and what they post while the client runs.
OtherAccounts == {"B"}
OtherContents == {<<"h">>}
\* What an account calling the contract directly passes.
DirectContents == {<<>>, <<" ">>, <<"h">>}

VARIABLES
  \* ---- ledger (part_001)
  chainMessages,   \* Message[] public messages
  events,          \* the MessagePosted log of the chain
  now,             \* the time; a block mined now has block.timestamp = now
  mempool,         \* transactions submitted and not yet executed
  lastTx,          \* the transaction executed last and how it ended
  succeeded,       \* history: the posts that succeeded, in execution order
  ret,             \* the last read call and what it returned
  \* ---- wallet provider (window.ethereum)
  hasProvider,     \* whether window.ethereum exists
  walletAccount,   \* accounts[0] of the wallet's authorized accounts, or NULL
  accountsHandlers, \* handlers the client has on 'accountsChanged'
  chainHandlers,   \* handlers the client has on 'chainChanged'
  \* ---- React state of App (part_000 lines 7-12, 251-256)
  currentAccount,
  messageContent,
  messages,
  loading,
  error,
  contract,
  \* ---- asynchronous calls in flight
  initPc,          \* where init / checkIfWalletIsConnected stands
  connects,        \* connectWallet calls awaiting eth_requestAccounts
  binds,           \* initializeContract calls awaiting getSigner
  fetches,         \* fetchAllMessages calls awaiting getAllMessages
  submitting,      \* postMessage calls awaiting contract.postMessage
  confirmations,   \* executed client transactions whose tx.wait is pending
  listeners,       \* one queue of undelivered notifications per MessagePosted
                   \* listener the client has registered
  messageIds,      \* history: the ledger index of each entry of messages
  delivered        \* history: the ledger indices the listener has run for
                   \* since the binding was last set or cleared

ledgerVars == <<chainMessages, events, now, mempool, lastTx, succeeded, ret>>
walletVars == <<hasProvider, walletAccount, accountsHandlers, chainHandlers>>
reactVars == <<currentAccount, messageContent, messages, loading, error, contract>>
asyncVars == <<initPc, connects, binds, fetches, submitting, confirmations,
               listeners, messageIds, delivered>>
clientVars == <<walletVars, reactVars, asyncVars>>

vars == <<ledgerVars, clientVars>>

\* ------------------------------------------------------------------ ledger
Last(s) == s[Len(s)]

\* struct Message { address sender; string content; uint256 timestamp; }
Message(sender, content, timestamp) ==
  [sender |-> sender, content |-> content, timestamp |-> timestamp]

\* require(bytes(content).length > 0, "Message content cannot be empty")
postMessage_require(content) == Len(content) > 0

\* Faults of postMessage's push: the block time not stored, the record put
\* first, the last record overwritten.
postMessage_push_noTime(msgs, sender, content, blockTimestamp) ==
  Append(msgs, Message(sender, content, 0))
postMessage_push_front(msgs, sender, content, blockTimestamp) ==
  <<Message(sender, content, blockTimestamp)>> \o msgs
postMessage_push_overwrite(msgs, sender, content, blockTimestamp) ==
  IF msgs = <<>>
  THEN <<Message(sender, content, blockTimestamp)>>
  ELSE [msgs EXCEPT ![Len(msgs)] = Message(sender, content, blockTimestamp)]
         \o <<Message(sender, content, blockTimestamp)>>

\* messages.push(Message({sender: msg.sender, content: content,
\*                        timestamp: block.timestamp}))
postMessage_push(msgs, sender, content, blockTimestamp) ==
  Append(msgs, Message(sender, content, blockTimestamp))

\* Fault of postMessage's emit: the notification carries no block time.
postMessage_emit_noTime(evs, sender, content, blockTimestamp) ==
  Append(evs, Message(sender, content, 0))

\* emit MessagePosted(msg.sender, content, block.timestamp)
postMessage_emit(evs, sender, content, blockTimestamp) ==
  Append(evs, Message(sender, content, blockTimestamp))

\* function getAllMessages() public view returns (Message[] memory)
getAllMessages(msgs) == msgs

\* function getMessageCount() public view returns (uint256)
getMessageCount(msgs) == Len(msgs)

RemoveAt(s, i) == [k \in 1..(Len(s) - 1) |-> IF k < i THEN s[k] ELSE s[k + 1]]

NoTx == [from |-> NULL, content |-> <<>>, submittedAt |-> 0, minedAt |-> 0,
         ok |-> FALSE, executed |-> FALSE]
\* `after` is history: how many posts had succeeded when the call was made.
NoRet == [op |-> "none", all |-> <<>>, count |-> 0, after |-> 0]

\* The contract as deployed, at time t.
LedgerAt(t) ==
  /\ chainMessages = <<>>
  /\ events = <<>>
  /\ now = t
  /\ mempool = <<>>
  /\ lastTx = NoTx
  /\ succeeded = <<>>
  /\ ret = NoRet

\* An account signs and submits postMessage(content) straight to the contract.
SubmitPost(caller, content) ==
  /\ Len(chainMessages) + Len(mempool) < MaxMessages
  /\ mempool' = Append(mempool, [from |-> caller, content |-> content,
                                 submittedAt |-> now, client |-> FALSE])
  /\ UNCHANGED <<chainMessages, events, now, lastTx, succeeded, ret>>
  /\ UNCHANGED clientVars

\* A block of time `now` executes transaction i: postMessage reverts, leaving
\* the state as it was, or appends the record and emits MessagePosted, which
\* every registered listener is notified of. A transaction of the client then
\* has its tx.wait() to settle.
ExecPostMessage(i) ==
  /\ i \in 1..Len(mempool)
  /\ LET tx == mempool[i]
         ok == postMessage_require(tx.content)
     IN /\ mempool' = RemoveAt(mempool, i)
        /\ lastTx' = [from |-> tx.from, content |-> tx.content,
                      submittedAt |-> tx.submittedAt, minedAt |-> now,
                      ok |-> ok, executed |-> TRUE]
        /\ IF ok
           THEN /\ chainMessages' = postMessage_push(chainMessages, tx.from, tx.content, now)
                /\ events' = postMessage_emit(events, tx.from, tx.content, now)
                /\ succeeded' = Append(succeeded, lastTx')
                /\ listeners' = [k \in DOMAIN listeners |->
                                   Append(listeners[k],
                                          [event |-> Last(events'), id |-> Len(events')])]
           ELSE UNCHANGED <<chainMessages, events, succeeded, listeners>>
        /\ confirmations' = IF tx.client THEN Append(confirmations, ok)
                            ELSE confirmations
  /\ UNCHANGED <<now, ret>>
  /\ UNCHANGED <<walletVars, reactVars, initPc, connects, binds, fetches,
                 submitting, messageIds, delivered>>

\* Time passes: later blocks carry later timestamps.
Tick ==
  /\ now < MaxTime
  /\ now' = now + 1
  /\ UNCHANGED <<chainMessages, events, mempool, lastTx, succeeded, ret>>
  /\ UNCHANGED clientVars

CallGetAllMessages ==
  /\ ret' = [op |-> "getAll", all |-> getAllMessages(chainMessages), count |-> 0,
             after |-> Len(succeeded)]
  /\ UNCHANGED <<chainMessages, events, now, mempool, lastTx, succeeded>>
  /\ UNCHANGED clientVars

CallGetMessageCount ==
  /\ ret' = [op |-> "count", all |-> <<>>, count |-> getMessageCount(chainMessages),
             after |-> Len(succeeded)]
  /\ UNCHANGED <<chainMessages, events, now, mempool, lastTx, succeeded>>
  /\ UNCHANGED clientVars

\* ------------------------------------------------------------ client state
NoContract == [bound |-> FALSE, signer |-> NULL]
\* new Contract(CONTRACT_ADDRESS, MessageBoardArtifact.abi, signer)
Contract(signer) == [bound |-> TRUE, signer |-> signer]

\* useState defaults; nothing is in flight and nothing is registered.
ClientInit ==
  /\ hasProvider \in BOOLEAN
  /\ walletAccount \in Accounts \cup {NULL}
  /\ accountsHandlers = 0
  /\ chainHandlers = 0
  /\ currentAccount = NULL
  /\ messageContent = <<>>
  /\ messages = <<>>
  /\ loading = FALSE
  /\ error = ""
  /\ contract = NoContract
  /\ initPc = "unmounted"
  /\ connects = 0
  /\ binds = 0
  /\ fetches = <<>>
  /\ submitting = <<>>
  /\ confirmations = <<>>
  /\ listeners = <<>>
  /\ messageIds = <<>>
  /\ delivered = {}

\* The contract is called directly; no client runs.
LedgerOnlyInit ==
  /\ LedgerAt(0)
  /\ ClientInit
  /\ hasProvider = FALSE
  /\ walletAccount = NULL

LedgerNext ==
  \/ \E a \in Accounts, c \in DirectContents : SubmitPost(a, c)
  \/ \E i \in 1..MaxMessages : ExecPostMessage(i)
  \/ Tick
  \/ CallGetAllMessages
  \/ CallGetMessageCount

LedgerSpec == LedgerOnlyInit /\ [][LedgerNext]_vars

\* ------------------------------------------------- client: shared helpers
RECURSIVE TrimStart(_)
TrimStart(s) == IF s # <<>> /\ Head(s) \in Whitespace THEN TrimStart(Tail(s)) ELSE s
RECURSIVE TrimEnd(_)
TrimEnd(s) ==
  IF s # <<>> /\ Last(s) \in Whitespace THEN TrimEnd(SubSeq(s, 1, Len(s) - 1)) ELSE s
\* String.prototype.trim
Trim(s) == TrimEnd(TrimStart(s))

\* Number(timestamp): exact for every block time (below 2^53).
NumberOf(t) == t

\* fetchedMessages.map(msg => ({sender, content, timestamp: Number(...)}))
Format(fetched) ==
  [k \in 1..Len(fetched) |->
     [sender |-> fetched[k].sender, content |-> fetched[k].content,
      timestamp |-> NumberOf(fetched[k].timestamp)]]

\* The composer is rendered only when an account is active (lines 178, 441);
\* the textarea is disabled while loading, the button also while the text is
\* blank (lines 202, 207, 463, 468).
ComposerEnabled == initPc # "unmounted" /\ currentAccount # NULL /\ ~loading
PostButtonEnabled == ComposerEnabled /\ Trim(messageContent) # <<>>
ConnectButtonShown == initPc # "unmounted" /\ currentAccount = NULL

\* onChange={(e) => setMessageContent(e.target.value)}
setMessageContent(c) ==
  /\ ComposerEnabled
  /\ c # messageContent
  /\ messageContent' = c
  /\ UNCHANGED <<ledgerVars, walletVars, asyncVars>>
  /\ UNCHANGED <<currentAccount, messages, loading, error, contract>>

\* The listener: setMessages(prev => [...prev, {sender, content,
\* timestamp: Number(timestamp)}]), run for the oldest undelivered
\* notification of listener k.
listener(k) ==
  /\ k \in DOMAIN listeners
  /\ listeners[k] # <<>>
  /\ LET n == Head(listeners[k])
     IN /\ messages' = Append(messages,
                              [sender |-> n.event.sender, content |-> n.event.content,
                               timestamp |-> NumberOf(n.event.timestamp)])
        /\ messageIds' = Append(messageIds, n.id)
        /\ delivered' = delivered \cup {n.id}
  /\ listeners' = [listeners EXCEPT ![k] = Tail(listeners[k])]
  /\ UNCHANGED <<ledgerVars, walletVars>>
  /\ UNCHANGED <<currentAccount, messageContent, loading, error, contract>>
  /\ UNCHANGED <<initPc, connects, binds, fetches, submitting, confirmations>>

\* Fault of the contract effect: no fetch is started for the binding.
fetchAllMessages_call_none(fs) == fs

\* fetchAllMessages(contractInstance) up to its await: setLoading(true);
\* setError(''); the getAllMessages call leaves for the node. Every caller
\* passes a binding, so the early return of line 15 is never taken.
fetchAllMessages_call(fs) == Append(fs, [st |-> "requested", snap |-> <<>>])

\* The node evaluates getAllMessages for fetch i on the ledger as it is now.
fetchAllMessages_served(i) ==
  /\ i \in DOMAIN fetches
  /\ fetches[i].st = "requested"
  /\ fetches' = [fetches EXCEPT ![i] = [st |-> "served",
                                       snap |-> getAllMessages(chainMessages)]]
  /\ UNCHANGED <<ledgerVars, walletVars, reactVars>>
  /\ UNCHANGED <<initPc, connects, binds, submitting, confirmations, listeners,
                 messageIds, delivered>>

\* Fault of fetchAllMessages: the snapshot merged into the cache.
fetchAllMessages_setMessages_merge(prev, formatted) == prev \o formatted

\* What setMessages(formatted) leaves in the cache.
fetchAllMessages_setMessages(prev, formatted) == formatted

\* The await of fetch i resolves: setMessages(formatted); finally
\* setLoading(false).
fetchAllMessages_resolved(i) ==
  /\ i \in DOMAIN fetches
  /\ fetches[i].st = "served"
  /\ messages' = fetchAllMessages_setMessages(messages, Format(fetches[i].snap))
  /\ messageIds' = [k \in 1..Len(fetches[i].snap) |-> k]
  /\ loading' = FALSE
  /\ UNCHANGED delivered
  /\ fetches' = RemoveAt(fetches, i)
  /\ UNCHANGED <<ledgerVars, walletVars>>
  /\ UNCHANGED <<currentAccount, messageContent, error, contract>>
  /\ UNCHANGED <<initPc, connects, binds, submitting, confirmations, listeners>>

\* Fault of the catch branch: the call is issued again.
fetchAllMessages_catch_retry(i) ==
  /\ i \in DOMAIN fetches
  /\ error' = "Failed to fetch messages."
  /\ loading' = FALSE
  /\ fetches' = [fetches EXCEPT ![i] = [st |-> "requested", snap |-> <<>>]]
  /\ UNCHANGED <<ledgerVars, walletVars>>
  /\ UNCHANGED <<currentAccount, messageContent, messages, contract>>
  /\ UNCHANGED <<initPc, connects, binds, submitting, confirmations, listeners,
                 messageIds, delivered>>

\* The await of fetch i rejects: catch setError; finally setLoading(false).
fetchAllMessages_catch(i) ==
  /\ i \in DOMAIN fetches
  /\ error' = "Failed to fetch messages."
  /\ loading' = FALSE
  /\ fetches' = RemoveAt(fetches, i)
  /\ UNCHANGED <<ledgerVars, walletVars>>
  /\ UNCHANGED <<currentAccount, messageContent, messages, contract>>
  /\ UNCHANGED <<initPc, connects, binds, submitting, confirmations, listeners,
                 messageIds, delivered>>

\* Faults of postMessage: the blank check made before the binding check; the
\* message put into the cache at once instead of waiting for the notification.
postMessage_blankFirst ==
  /\ IF Trim(messageContent) = <<>>
     THEN /\ error' = "Message cannot be empty!"
          /\ UNCHANGED <<loading, submitting>>
     ELSE IF ~contract.bound
     THEN /\ error' = "Contract not loaded."
          /\ UNCHANGED <<loading, submitting>>
     ELSE /\ loading' = TRUE
          /\ error' = ""
          /\ submitting' = Append(submitting, [from |-> contract.signer,
                                               content |-> messageContent])
  /\ UNCHANGED <<ledgerVars, walletVars>>
  /\ UNCHANGED <<currentAccount, messageContent, messages, contract>>
  /\ UNCHANGED <<initPc, connects, binds, fetches, confirmations, listeners,
                 messageIds, delivered>>
postMessage_optimistic ==
  /\ IF ~contract.bound
     THEN /\ error' = "Contract not loaded."
          /\ UNCHANGED <<loading, submitting, messages>>
     ELSE IF Trim(messageContent) = <<>>
     THEN /\ error' = "Message cannot be empty!"
          /\ UNCHANGED <<loading, submitting, messages>>
     ELSE /\ loading' = TRUE
          /\ error' = ""
          /\ submitting' = Append(submitting, [from |-> contract.signer,
                                               content |-> messageContent])
          /\ messages' = Append(messages, [sender |-> contract.signer,
                                           content |-> messageContent,
                                           timestamp |-> now])
  /\ UNCHANGED <<ledgerVars, walletVars>>
  /\ UNCHANGED <<currentAccount, messageContent, contract>>
  /\ UNCHANGED <<initPc, connects, binds, fetches, confirmations, listeners,
                 messageIds, delivered>>

\* postMessage (lines 141-152, 339-351) up to its first await.
postMessage ==
  /\ IF ~contract.bound
     THEN /\ error' = "Contract not loaded."
          /\ UNCHANGED <<loading, submitting>>
     ELSE IF Trim(messageContent) = <<>>
     THEN /\ error' = "Message cannot be empty!"
          /\ UNCHANGED <<loading, submitting>>
     ELSE /\ loading' = TRUE
          /\ error' = ""
          /\ submitting' = Append(submitting, [from |-> contract.signer,
                                               content |-> messageContent])
  /\ UNCHANGED <<ledgerVars, walletVars>>
  /\ UNCHANGED <<currentAccount, messageContent, messages, contract>>
  /\ UNCHANGED <<initPc, connects, binds, fetches, confirmations, listeners,
                 messageIds, delivered>>

\* onClick={postMessage} of the enabled button.
ClickPost == PostButtonEnabled /\ postMessage

\* await contract.postMessage(messageContent) resolves for call i: the wallet
\* signed the transaction for the binding's signer and sent it.
postMessage_sent(i) ==
  /\ i \in DOMAIN submitting
  /\ walletAccount # NULL
  /\ Len(chainMessages) + Len(mempool) < MaxMessages
  /\ mempool' = Append(mempool, [from |-> submitting[i].from,
                                 content |-> submitting[i].content,
                                 submittedAt |-> now, client |-> TRUE])
  /\ submitting' = RemoveAt(submitting, i)
  /\ UNCHANGED <<chainMessages, events, now, lastTx, succeeded, ret>>
  /\ UNCHANGED <<walletVars, reactVars>>
  /\ UNCHANGED <<initPc, connects, binds, fetches, confirmations, listeners,
                 messageIds, delivered>>

\* await contract.postMessage(...) rejects for call i (the user declines, the
\* wallet fails): catch setError; finally setLoading(false).
postMessage_rejected(i) ==
  /\ i \in DOMAIN submitting
  /\ error' = "Failed to post message."
  /\ loading' = FALSE
  /\ submitting' = RemoveAt(submitting, i)
  /\ UNCHANGED <<ledgerVars, walletVars>>
  /\ UNCHANGED <<currentAccount, messageContent, messages, contract>>
  /\ UNCHANGED <<initPc, connects, binds, fetches, confirmations, listeners,
                 messageIds, delivered>>

\* await tx.wait() settles for executed transaction j: on success
\* setMessageContent(''), on a reverted transaction catch setError; finally
\* setLoading(false).
postMessage_waited(j) ==
  /\ j \in DOMAIN confirmations
  /\ IF confirmations[j]
     THEN messageContent' = <<>> /\ UNCHANGED error
     ELSE error' = "Failed to post message." /\ UNCHANGED messageContent
  /\ loading' = FALSE
  /\ confirmations' = RemoveAt(confirmations, j)
  /\ UNCHANGED <<ledgerVars, walletVars>>
  /\ UNCHANGED <<currentAccount, messages, contract>>
  /\ UNCHANGED <<initPc, connects, binds, fetches, submitting, listeners,
                 messageIds, delivered>>

\* await tx.wait() rejects although the transaction went through (the
\* provider fails while polling): catch setError; finally setLoading(false).
postMessage_waitFailed(j) ==
  /\ j \in DOMAIN confirmations
  /\ error' = "Failed to post message."
  /\ loading' = FALSE
  /\ confirmations' = RemoveAt(confirmations, j)
  /\ UNCHANGED <<ledgerVars, walletVars>>
  /\ UNCHANGED <<currentAccount, messageContent, messages, contract>>
  /\ UNCHANGED <<initPc, connects, binds, fetches, submitting, listeners,
                 messageIds, delivered>>

\* ------------------------------------------- effect-based client (1-242)
\* The cleanup of the contract effect (lines 117-123) when the binding goes:
\* contract.off("MessagePosted", listener).
ContractEffect_cleanup(ls) == <<>>

\* The contract effect (lines 103-116) for a fresh binding, after the cleanup
\* of the previous run: fetchAllMessages(contract) starts and one listener is
\* registered with contract.on("MessagePosted", listener).
ContractEffect_on(ls) == Append(ContractEffect_cleanup(ls), <<>>)

\* setCurrentAccount(null); setContract(null); setMessages([]) and an error:
\* the else and catch branches of init, the empty accountsChanged and
\* chainChanged.
ClearSession(message) ==
  /\ error' = message
  /\ currentAccount' = NULL
  /\ contract' = NoContract
  /\ messages' = <<>>
  /\ messageIds' = <<>>
  /\ delivered' = {}
  /\ listeners' = IF contract.bound THEN ContractEffect_cleanup(listeners)
                  ELSE listeners

\* The mount effect (lines 35-41, 73, 93-94): without a provider an error;
\* else init() runs to its first await and both handlers are registered.
Mount ==
  /\ initPc = "unmounted"
  /\ IF ~hasProvider
     THEN /\ error' = "Make sure you have MetaMask installed!"
          /\ initPc' = "done"
          /\ UNCHANGED <<accountsHandlers, chainHandlers>>
     ELSE /\ initPc' = "eth_accounts"
          /\ accountsHandlers' = accountsHandlers + 1
          /\ chainHandlers' = chainHandlers + 1
          /\ UNCHANGED error
  /\ UNCHANGED <<ledgerVars, hasProvider, walletAccount>>
  /\ UNCHANGED <<currentAccount, messageContent, messages, loading, contract>>
  /\ UNCHANGED <<connects, binds, fetches, submitting, confirmations, listeners,
                 messageIds, delivered>>

\* init, lines 44-46 and 59-64: eth_accounts answers with the wallet's
\* authorized accounts.
init_accounts ==
  /\ initPc = "eth_accounts"
  /\ IF walletAccount # NULL
     THEN /\ currentAccount' = walletAccount
          /\ initPc' = "provider.ready"
          /\ UNCHANGED <<error, contract, messages, messageIds, listeners, delivered>>
     ELSE /\ ClearSession("Connect your MetaMask wallet to use the DApp.")
          /\ initPc' = "done"
  /\ UNCHANGED <<ledgerVars, walletVars>>
  /\ UNCHANGED <<messageContent, loading>>
  /\ UNCHANGED <<connects, binds, fetches, submitting, confirmations>>

\* init, line 49: await provider.ready.
init_ready ==
  /\ initPc = "provider.ready"
  /\ initPc' = "getSigner"
  /\ UNCHANGED <<ledgerVars, walletVars, reactVars>>
  /\ UNCHANGED <<connects, binds, fetches, submitting, confirmations, listeners,
                 messageIds, delivered>>

\* Fault of init: the instance is dropped instead of adopted.
init_setContract_none(instance) == NoContract

\* What init adopts at setContract (line 57).
init_setContract(instance) == instance

\* init, lines 50-58: getSigner answers with the signer of the wallet's
\* accounts[0]; setContract(instance); setError(''). The contract effect then
\* runs for the new binding.
init_signer ==
  /\ initPc = "getSigner"
  /\ walletAccount # NULL
  /\ contract' = init_setContract(Contract(walletAccount))
  /\ initPc' = "done"
  /\ IF contract' # contract /\ contract'.bound
     THEN /\ listeners' = ContractEffect_on(listeners)
          /\ fetches' = fetchAllMessages_call(fetches)
          /\ loading' = TRUE
     ELSE UNCHANGED <<listeners, fetches, loading>>
  /\ error' = ""
  /\ UNCHANGED <<ledgerVars, walletVars>>
  /\ UNCHANGED <<currentAccount, messageContent, messages>>
  /\ delivered' = IF contract' # contract THEN {} ELSE delivered
  /\ UNCHANGED <<connects, binds, submitting, confirmations, messageIds>>

\* init, lines 65-70: eth_accounts or getSigner rejects.
init_catch ==
  /\ initPc \in {"eth_accounts", "getSigner"}
  /\ ClearSession("Failed to initialize DApp.")
  /\ initPc' = "done"
  /\ UNCHANGED <<ledgerVars, walletVars>>
  /\ UNCHANGED <<messageContent, loading>>
  /\ UNCHANGED <<connects, binds, fetches, submitting, confirmations>>

\* handleAccountsChanged (lines 75-84); accounts0 is accounts[0], NULL for an
\* empty list.
handleAccountsChanged(accounts0) ==
  IF accounts0 # NULL
  THEN /\ currentAccount' = accounts0
       /\ UNCHANGED <<error, contract, messages, messageIds, listeners, delivered>>
  ELSE ClearSession("Wallet disconnected.")

\* Fault of handleChainChanged: the cache survives the network change.
handleChainChanged_keepsCache ==
  /\ error' = "Network changed. Please reconnect."
  /\ currentAccount' = NULL
  /\ contract' = NoContract
  /\ listeners' = IF contract.bound THEN ContractEffect_cleanup(listeners)
                  ELSE listeners
  /\ UNCHANGED <<messages, messageIds, delivered>>

\* handleChainChanged (lines 86-91).
handleChainChanged == ClearSession("Network changed. Please reconnect.")

\* The wallet's authorized accounts change (the user switches, connects or
\* disconnects in the wallet) and it notifies 'accountsChanged'.
WalletAccountsChanged(accounts0) ==
  /\ hasProvider
  /\ accounts0 # walletAccount
  /\ walletAccount' = accounts0
  /\ IF accountsHandlers > 0
     THEN handleAccountsChanged(accounts0)
     ELSE UNCHANGED <<currentAccount, error, contract, messages, messageIds,
                      listeners, delivered>>
  /\ UNCHANGED <<ledgerVars, hasProvider, accountsHandlers, chainHandlers>>
  /\ UNCHANGED <<messageContent, loading>>
  /\ UNCHANGED <<initPc, connects, binds, fetches, submitting, confirmations>>

\* The wallet changes network and notifies 'chainChanged'.
WalletChainChanged ==
  /\ hasProvider
  /\ chainHandlers > 0
  /\ handleChainChanged
  /\ UNCHANGED <<ledgerVars, walletVars>>
  /\ UNCHANGED <<messageContent, loading>>
  /\ UNCHANGED <<initPc, connects, binds, fetches, submitting, confirmations>>

\* connectWallet (lines 126-133) up to its await, from the Connect button.
connectWallet ==
  /\ ConnectButtonShown
  /\ connects < MaxConnects
  /\ IF ~hasProvider
     THEN error' = "Get MetaMask!" /\ UNCHANGED connects
     ELSE connects' = connects + 1 /\ UNCHANGED error
  /\ UNCHANGED <<ledgerVars, walletVars>>
  /\ UNCHANGED <<currentAccount, messageContent, messages, loading, contract>>
  /\ UNCHANGED <<initPc, binds, fetches, submitting, confirmations, listeners,
                 messageIds, delivered>>

\* connectWallet, lines 134-135: eth_requestAccounts answers.
connectWallet_resolved ==
  /\ connects > 0
  /\ walletAccount # NULL
  /\ connects' = connects - 1
  /\ currentAccount' = walletAccount
  /\ error' = ""
  /\ UNCHANGED <<ledgerVars, walletVars>>
  /\ UNCHANGED <<messageContent, messages, loading, contract>>
  /\ UNCHANGED <<initPc, binds, fetches, submitting, confirmations, listeners,
                 messageIds, delivered>>

\* connectWallet, lines 136-138: eth_requestAccounts rejects.
connectWallet_catch ==
  /\ connects > 0
  /\ connects' = connects - 1
  /\ error' = "Failed to connect wallet."
  /\ UNCHANGED <<ledgerVars, walletVars>>
  /\ UNCHANGED <<currentAccount, messageContent, messages, loading, contract>>
  /\ UNCHANGED <<initPc, binds, fetches, submitting, confirmations, listeners,
                 messageIds, delivered>>

\* The client starts on a freshly deployed board. Block time stands still at
\* MaxTime during the session (Tick is not part of Next).
Init ==
  /\ LedgerAt(MaxTime)
  /\ ClientInit
  /\ ~hasProvider => walletAccount = NULL

Next ==
  \/ Mount
  \/ init_accounts
  \/ init_ready
  \/ init_signer
  \/ init_catch
  \/ \E a \in Accounts \cup {NULL} : WalletAccountsChanged(a)
  \/ WalletChainChanged
  \/ connectWallet
  \/ connectWallet_resolved
  \/ connectWallet_catch
  \/ \E c \in Contents : setMessageContent(c)
  \/ ClickPost
  \/ \E i \in 1..MaxMessages : postMessage_sent(i)
  \/ \E i \in 1..MaxMessages : postMessage_rejected(i)
  \/ \E j \in 1..MaxMessages : postMessage_waited(j)
  \/ \E j \in 1..MaxMessages : postMessage_waitFailed(j)
  \/ \E i \in 1..MaxMessages : fetchAllMessages_served(i)
  \/ \E i \in 1..MaxMessages : fetchAllMessages_resolved(i)
  \/ \E i \in 1..MaxMessages : fetchAllMessages_catch(i)
  \/ \E k \in 1..MaxMessages : listener(k)
  \/ \E a \in OtherAccounts, c \in OtherContents : SubmitPost(a, c)
  \/ \E i \in 1..MaxMessages : ExecPostMessage(i)

Spec == Init /\ [][Next]_vars

\* --------------------------------- initializeContract client (245-499)
\* window.etherum (line 397): window has no such property.
window_etherum == FALSE

\* The mount effect's cleanup (lines 423-426): removeListener is handed a
\* function created on the spot, which is none of the n registered ones.
V2_MountEffect_cleanup(n) == n

\* initializeContract (lines 308-311) up to its await of getSigner.
initializeContract_call(n) == n + 1

\* The listeners after messageBoardContract.on("MessagePosted", ...) of a new
\* binding (line 323): nothing removes the listener of the binding before.
initializeContract_on(ls) == Append(ls, <<>>)

\* initializeContract, lines 311-332: getSigner answers with the signer of the
\* wallet's accounts[0]; setContract; the listener is registered;
\* fetchAllMessages(messageBoardContract) starts.
initializeContract_signer ==
  /\ binds > 0
  /\ walletAccount # NULL
  /\ binds' = binds - 1
  /\ contract' = Contract(walletAccount)
  /\ listeners' = initializeContract_on(listeners)
  /\ fetches' = fetchAllMessages_call(fetches)
  /\ loading' = TRUE
  /\ error' = ""
  /\ delivered' = {}
  /\ UNCHANGED <<ledgerVars, walletVars>>
  /\ UNCHANGED <<currentAccount, messageContent, messages>>
  /\ UNCHANGED <<initPc, connects, submitting, confirmations, messageIds>>

\* initializeContract, lines 333-336: getSigner rejects.
initializeContract_catch ==
  /\ binds > 0
  /\ binds' = binds - 1
  /\ error' = "Failed to load contract. Ensire correct network and address."
  /\ UNCHANGED <<ledgerVars, walletVars>>
  /\ UNCHANGED <<currentAccount, messageContent, messages, loading, contract>>
  /\ UNCHANGED <<initPc, connects, fetches, submitting, confirmations, listeners,
                 messageIds, delivered>>

\* The mount effect (lines 394-417): checkIfWalletIsConnected() runs to its
\* await, or sets an error without a provider; the two wallet handlers are
\* registered only under window.etherum.
V2_Mount ==
  /\ initPc = "unmounted"
  /\ IF ~hasProvider
     THEN /\ error' = "Make sure you have Metamask installed!"
          /\ initPc' = "done"
     ELSE /\ initPc' = "eth_accounts"
          /\ UNCHANGED error
  /\ IF window_etherum
     THEN /\ accountsHandlers' = accountsHandlers + 1
          /\ chainHandlers' = chainHandlers + 1
     ELSE UNCHANGED <<accountsHandlers, chainHandlers>>
  /\ UNCHANGED <<ledgerVars, hasProvider, walletAccount>>
  /\ UNCHANGED <<currentAccount, messageContent, messages, loading, contract>>
  /\ UNCHANGED <<connects, binds, fetches, submitting, confirmations, listeners,
                 messageIds, delivered>>

\* checkIfWalletIsConnected, lines 270-280: eth_accounts answers.
checkIfWalletIsConnected_accounts ==
  /\ initPc = "eth_accounts"
  /\ initPc' = "done"
  /\ IF walletAccount # NULL
     THEN /\ currentAccount' = walletAccount
          /\ binds' = initializeContract_call(binds)
          /\ UNCHANGED error
     ELSE /\ error' = "Connect your Metamask wallet to use the DApp."
          /\ UNCHANGED <<currentAccount, binds>>
  /\ UNCHANGED <<ledgerVars, walletVars>>
  /\ UNCHANGED <<messageContent, messages, loading, contract>>
  /\ UNCHANGED <<connects, fetches, submitting, confirmations, listeners,
                 messageIds, delivered>>

\* checkIfWalletIsConnected, lines 281-284: eth_accounts rejects.
checkIfWalletIsConnected_catch ==
  /\ initPc = "eth_accounts"
  /\ initPc' = "done"
  /\ error' = "Error connecting to wallet. Please check console."
  /\ UNCHANGED <<ledgerVars, walletVars>>
  /\ UNCHANGED <<currentAccount, messageContent, messages, loading, contract>>
  /\ UNCHANGED <<connects, binds, fetches, submitting, confirmations, listeners,
                 messageIds, delivered>>

\* connectWallet (lines 287-296) up to its await, from the Connect button.
V2_connectWallet ==
  /\ ConnectButtonShown
  /\ connects < MaxConnects
  /\ IF ~hasProvider
     THEN error' = "Get Metamask!" /\ UNCHANGED connects
     ELSE connects' = connects + 1 /\ UNCHANGED error
  /\ UNCHANGED <<ledgerVars, walletVars>>
  /\ UNCHANGED <<currentAccount, messageContent, messages, loading, contract>>
  /\ UNCHANGED <<initPc, binds, fetches, submitting, confirmations, listeners,
                 messageIds, delivered>>

\* connectWallet, lines 297-301: eth_requestAccounts answers;
\* setCurrentAccount(accounts[0]); initializeContract(ethereum); setError('').
V2_connectWallet_resolved ==
  /\ connects > 0
  /\ walletAccount # NULL
  /\ connects' = connects - 1
  /\ currentAccount' = walletAccount
  /\ binds' = initializeContract_call(binds)
  /\ error' = ""
  /\ UNCHANGED <<ledgerVars, walletVars>>
  /\ UNCHANGED <<messageContent, messages, loading, contract>>
  /\ UNCHANGED <<initPc, fetches, submitting, confirmations, listeners,
                 messageIds, delivered>>

\* connectWallet, lines 302-305: eth_requestAccounts rejects.
V2_connectWallet_catch ==
  /\ connects > 0
  /\ connects' = connects - 1
  /\ error' = "Failed to connect wallet."
  /\ UNCHANGED <<ledgerVars, walletVars>>
  /\ UNCHANGED <<currentAccount, messageContent, messages, loading, contract>>
  /\ UNCHANGED <<initPc, binds, fetches, submitting, confirmations, listeners,
                 messageIds, delivered>>

\* The accountsChanged handler (lines 398-408).
V2_handleAccountsChanged(accounts0) ==
  IF accounts0 # NULL
  THEN /\ currentAccount' = accounts0
       /\ binds' = initializeContract_call(binds)
       /\ UNCHANGED <<messages, messageIds, contract, error, delivered>>
  ELSE /\ currentAccount' = NULL
       /\ messages' = <<>>
       /\ messageIds' = <<>>
       /\ contract' = NoContract
       /\ error' = "Wallet disconnected. Please connect."
       /\ delivered' = {}
       /\ UNCHANGED binds

\* The chainChanged handler (lines 410-416).
V2_handleChainChanged ==
  /\ error' = "Network changed. Please ensure you are on the correct network (Hardhat Localhost)."
  /\ currentAccount' = NULL
  /\ messages' = <<>>
  /\ messageIds' = <<>>
  /\ contract' = NoContract
  /\ delivered' = {}

\* The wallet's authorized accounts change and it notifies 'accountsChanged'.
V2_WalletAccountsChanged(accounts0) ==
  /\ hasProvider
  /\ accounts0 # walletAccount
  /\ walletAccount' = accounts0
  /\ IF accountsHandlers > 0
     THEN V2_handleAccountsChanged(accounts0)
     ELSE UNCHANGED <<currentAccount, binds, messages, messageIds, contract,
                      error, delivered>>
  /\ UNCHANGED <<ledgerVars, hasProvider, accountsHandlers, chainHandlers>>
  /\ UNCHANGED <<messageContent, loading>>
  /\ UNCHANGED <<initPc, connects, fetches, submitting, confirmations, listeners>>

\* The wallet changes network and notifies 'chainChanged'.
V2_WalletChainChanged ==
  /\ hasProvider
  /\ IF chainHandlers > 0
     THEN V2_handleChainChanged
     ELSE UNCHANGED <<currentAccount, messages, messageIds, contract, error,
                      delivered>>
  /\ UNCHANGED <<ledgerVars, walletVars>>
  /\ UNCHANGED <<messageContent, loading>>
  /\ UNCHANGED <<initPc, connects, binds, fetches, submitting, confirmations,
                 listeners>>

\* postMessage (lines 339-351) up to its first await.
V2_postMessage ==
  /\ IF ~contract.bound
     THEN /\ error' = "Contract not initialized. Please connect your wallet."
          /\ UNCHANGED <<loading, submitting>>
     ELSE IF Trim(messageContent) = <<>>
     THEN /\ error' = "Message cannot be empty!"
          /\ UNCHANGED <<loading, submitting>>
     ELSE /\ loading' = TRUE
          /\ error' = ""
          /\ submitting' = Append(submitting, [from |-> contract.signer,
                                               content |-> messageContent])
  /\ UNCHANGED <<ledgerVars, walletVars>>
  /\ UNCHANGED <<currentAccount, messageContent, messages, contract>>
  /\ UNCHANGED <<initPc, connects, binds, fetches, confirmations, listeners,
                 messageIds, delivered>>

V2_ClickPost == PostButtonEnabled /\ V2_postMessage

\* In-flight calls explored at once (posts, fetches, listeners).
InFlight == 1..(MaxMessages + MaxConnects + 1)

Next2 ==
  \/ V2_Mount
  \/ checkIfWalletIsConnected_accounts
  \/ checkIfWalletIsConnected_catch
  \/ initializeContract_signer
  \/ initializeContract_catch
  \/ \E a \in Accounts \cup {NULL} : V2_WalletAccountsChanged(a)
  \/ V2_WalletChainChanged
  \/ V2_connectWallet
  \/ V2_connectWallet_resolved
  \/ V2_connectWallet_catch
  \/ \E c \in Contents : setMessageContent(c)
  \/ V2_ClickPost
  \/ \E i \in InFlight : postMessage_sent(i)
  \/ \E i \in InFlight : postMessage_rejected(i)
  \/ \E j \in InFlight : postMessage_waited(j)
  \/ \E j \in InFlight : postMessage_waitFailed(j)
  \/ \E i \in InFlight : fetchAllMessages_served(i)
  \/ \E i \in InFlight : fetchAllMessages_resolved(i)
  \/ \E i \in InFlight : fetchAllMessages_catch(i)
  \/ \E k \in InFlight : listener(k)
  \/ \E a \in OtherAccounts, c \in OtherContents : SubmitPost(a, c)
  \/ \E i \in 1..MaxMessages : ExecPostMessage(i)

Spec2 == Init /\ [][Next2]_vars

\* ------------------------------------- the handlers called past the render
\* The effect-based client with postMessage run whatever the button's
\* disabled attribute says (the handler's own checks are then what stands
\* between the call and the wallet); at most MaxMessages posts await the
\* wallet at once, and the page is the only poster.
CallPostMessage ==
  /\ initPc # "unmounted"
  /\ Len(submitting) < MaxMessages
  /\ postMessage

NextCalls ==
  \/ Mount
  \/ init_accounts
  \/ init_ready
  \/ init_signer
  \/ init_catch
  \/ \E a \in Accounts \cup {NULL} : WalletAccountsChanged(a)
  \/ WalletChainChanged
  \/ connectWallet
  \/ connectWallet_resolved
  \/ connectWallet_catch
  \/ \E c \in Contents : setMessageContent(c)
  \/ ClickPost
  \/ \E i \in 1..MaxMessages : postMessage_sent(i)
  \/ \E i \in 1..MaxMessages : postMessage_rejected(i)
  \/ \E j \in 1..MaxMessages : postMessage_waited(j)
  \/ \E j \in 1..MaxMessages : postMessage_waitFailed(j)
  \/ \E i \in 1..MaxMessages : fetchAllMessages_served(i)
  \/ \E i \in 1..MaxMessages : fetchAllMessages_resolved(i)
  \/ \E i \in 1..MaxMessages : fetchAllMessages_catch(i)
  \/ \E k \in 1..MaxMessages : listener(k)
  \/ \E i \in 1..MaxMessages : ExecPostMessage(i)
  \/ CallPostMessage

SpecCalls == Init /\ [][NextCalls]_vars

\* ------------------------------------------------------ the rendered feed
Reverse(s) == [k \in 1..Len(s) |-> s[Len(s) + 1 - k]]

\* Fault of the render: the cache shown in stored order.
RenderedMessages_asStored == messages

\* messages.slice().reverse().map(...) (lines 222-232, 484-494): the list on
\* the page.
RenderedMessages == Reverse(messages)

\* A client bound for account A on the empty ledger, its initial fetch
\* completed: the state after Mount, init_accounts, init_ready, init_signer,
\* fetchAllMessages_served(1), fetchAllMessages_resolved(1).
Hello == <<"h">>
World == <<"w">>
FeedContents == {Hello, World}

FeedInit ==
  /\ LedgerAt(MaxTime)
  /\ hasProvider = TRUE
  /\ walletAccount = "A"
  /\ accountsHandlers = 1
  /\ chainHandlers = 1
  /\ currentAccount = "A"
  /\ messageContent = <<>>
  /\ messages = <<>>
  /\ loading = FALSE
  /\ error = ""
  /\ contract = Contract("A")
  /\ initPc = "done"
  /\ connects = 0
  /\ binds = 0
  /\ fetches = <<>>
  /\ submitting = <<>>
  /\ confirmations = <<>>
  /\ listeners = << <<>> >>
  /\ messageIds = <<>>
  /\ delivered = {}

\* From there accounts post, from the page or past it, and the notifications
\* are delivered; the wallet stays as it is.
FeedNext ==
  \/ \E a \in Accounts, c \in FeedContents : SubmitPost(a, c)
  \/ \E i \in 1..MaxMessages : ExecPostMessage(i)
  \/ \E k \in 1..1 : listener(k)
  \/ \E c \in Contents : setMessageContent(c)
  \/ ClickPost
  \/ \E i \in 1..MaxMessages : postMessage_sent(i) \/ postMessage_rejected(i)
  \/ \E j \in 1..MaxMessages : postMessage_waited(j) \/ postMessage_waitFailed(j)

FeedSpec == FeedInit /\ [][FeedNext]_vars

\* ------------------------------------------------- the binding lifecycle
\* The effect-based client started on a ledger that already has its history:
\* accounts post before the page is opened, and from then on nobody posts
\* and the wallet sends no notification. A request that has left for the
\* node is answered and its continuation runs (the event loop runs every
\* settled promise's continuation), hence the weak fairness of the fetch.
LifecycleNext ==
  \/ \E a \in Accounts, c \in FeedContents :
       initPc = "unmounted" /\ SubmitPost(a, c)
  \/ \E i \in 1..MaxMessages : initPc = "unmounted" /\ ExecPostMessage(i)
  \/ Mount
  \/ init_accounts
  \/ init_ready
  \/ init_signer
  \/ init_catch
  \/ connectWallet
  \/ connectWallet_resolved
  \/ connectWallet_catch
  \/ \E c \in Contents : setMessageContent(c)
  \/ \E i \in 1..1 : fetchAllMessages_served(i)
  \/ \E i \in 1..1 : fetchAllMessages_resolved(i)
  \/ \E i \in 1..1 : fetchAllMessages_catch(i)

LifecycleSpec ==
  /\ Init
  /\ [][LifecycleNext]_vars
  /\ WF_vars(\E i \in 1..1 : fetchAllMessages_served(i))
  /\ WF_vars(\E i \in 1..1 :
               fetchAllMessages_resolved(i) \/ fetchAllMessages_catch(i))

\* ------------------------------------------------------------ ledger claims
IsPrefix(s, t) == Len(s) <= Len(t) /\ \A k \in 1..Len(s) : s[k] = t[k]
RecordOf(tx) == Message(tx.from, tx.content, tx.minedAt)

\* C6: a postMessage with non-empty content succeeds, and after a successful
\* postMessage(content) by A the sequence getAllMessages returns ends with the
\* record (A, content, block time of the post), whose timestamp is not before
\* the time the post was submitted; so does the sequence an actual
\* getAllMessages call returned when it followed that post.
C6_PostThenGetAll ==
  /\ lastTx.executed /\ Len(lastTx.content) > 0 => lastTx.ok
  /\ lastTx.executed /\ lastTx.ok =>
       /\ getAllMessages(chainMessages) # <<>>
       /\ Last(getAllMessages(chainMessages)) = RecordOf(lastTx)
       /\ Last(getAllMessages(chainMessages)).timestamp >= lastTx.submittedAt
       /\ ret.op = "getAll" /\ ret.after = Len(succeeded) =>
            ret.all # <<>> /\ Last(ret.all) = RecordOf(lastTx)

\* A post mined in a block later than its submission, read back by a call.
C6_Witness ==
  /\ lastTx.executed /\ lastTx.ok
  /\ lastTx.minedAt > lastTx.submittedAt
  /\ ret.op = "getAll" /\ ret.after = Len(succeeded)
  /\ Len(ret.all) = 2

\* C8: getMessageCount equals the number of posts that succeeded so far,
\* getAllMessages has that length, and its i-th record is the one appended by
\* the i-th successful post; an actual getMessageCount call returned the number
\* of posts that had succeeded when it was made.
C8_CountAndOrder ==
  /\ getMessageCount(chainMessages) = Len(succeeded)
  /\ Len(getAllMessages(chainMessages)) = Len(succeeded)
  /\ \A k \in 1..Len(succeeded) :
       getAllMessages(chainMessages)[k] = RecordOf(succeeded[k])
  /\ ret.op = "count" => ret.count = ret.after
  /\ ret.op = "getAll" =>
       /\ Len(ret.all) = ret.after
       /\ \A k \in 1..ret.after : ret.all[k] = RecordOf(succeeded[k])

\* Two posts by different callers have succeeded and the count was read.
C8_Witness ==
  /\ Len(succeeded) = 2
  /\ succeeded[1].from # succeeded[2].from
  /\ ret.op = "count" /\ ret.count = 2

\* C9: every ledger step keeps the history as a prefix of the new history; a
\* failed postMessage and the two read calls leave it exactly as it was.
C9_HistoryPreserved ==
  [][/\ IsPrefix(chainMessages, chainMessages')
     /\ (\E i \in 1..MaxMessages : ExecPostMessage(i)) /\ ~lastTx'.ok =>
          chainMessages' = chainMessages /\ events' = events
     /\ ret' # ret => chainMessages' = chainMessages /\ events' = events]_vars

\* A post failed and a read call returned, with a record already in the ledger.
C9_Witness ==
  /\ Len(chainMessages) = 1
  /\ lastTx.executed /\ ~lastTx.ok
  /\ ret.op = "getAll" /\ ret.all = chainMessages

\* C10: the MessagePosted notifications raised so far are exactly the ledger's
\* records, in order and field by field: one per successful postMessage, none
\* for a failed one.
C10_EventsMatchLedger ==
  /\ Len(events) = Len(succeeded)
  /\ events = chainMessages
  /\ \A k \in 1..Len(events) : events[k] = RecordOf(succeeded[k])

\* A post succeeded at a later block time, then a post failed.
C10_Witness ==
  /\ Len(events) = 1 /\ events[1].timestamp > 0
  /\ lastTx.executed /\ ~lastTx.ok

\* ------------------------------------------------------------ client claims
Range(s) == {s[k] : k \in DOMAIN s}
NoDuplicates(s) == \A j, k \in DOMAIN s : j # k => s[j] # s[k]

\* C1: whenever the client holds a binding, the signer the binding was created
\* with is the active account (currentAccount).
C1_SignerIsActiveAccount ==
  contract.bound => contract.signer = currentAccount

\* C2: while the client holds a binding, exactly one MessagePosted listener
\* registered by the client is active.
C2_OneListener ==
  contract.bound => Len(listeners) = 1

\* C3: right after the chainChanged handler has run, whatever the state
\* before, there is no active account, no binding, an empty cache and a
\* non-empty error message.
C3_ChainChangedClears ==
  [][WalletChainChanged =>
       /\ currentAccount' = NULL
       /\ ~contract'.bound
       /\ messages' = <<>>
       /\ error' # ""]_vars

\* The network changed while a post of the bound client was awaiting the
\* wallet and the ledger already held a record.
C3_Witness ==
  /\ error = "Network changed. Please reconnect."
  /\ currentAccount = NULL /\ ~contract.bound /\ messages = <<>>
  /\ submitting # <<>>
  /\ chainMessages # <<>>

\* C4: a binding is never held without an active account.
C4_BoundImpliesAccount ==
  contract.bound => currentAccount # NULL

\* C5: while the client is bound and no fetch is in flight, no ledger message
\* is in the cache twice and every message the listener was notified of is in
\* the cache.
C5_EachNotificationOnce ==
  contract.bound /\ fetches = <<>> =>
    /\ NoDuplicates(messageIds)
    /\ delivered \subseteq Range(messageIds)

\* C7: a post whose content is empty or only whitespace fails at the contract.
C7_BlankPostFails ==
  lastTx.executed /\ Trim(lastTx.content) = <<>> => ~lastTx.ok

\* C11: a postMessage call made without a binding, or with composer text that
\* is blank after trimming, sets an error and submits nothing: ledger, cache,
\* loading flag, composer text and the calls in flight stay as they were. The
\* missing binding is reported even when the text is blank as well.
C11_RejectedPostSubmitsNothing ==
  [][postMessage /\ (~contract.bound \/ Trim(messageContent) = <<>>) =>
       /\ error' # ""
       /\ ~contract.bound => error' = "Contract not loaded."
       /\ contract.bound => error' = "Message cannot be empty!"
       /\ UNCHANGED <<ledgerVars, messages, loading, messageContent,
                      submitting, confirmations, fetches>>]_vars

\* postMessage was called without a binding and with blank text.
C11_Witness ==
  /\ error = "Contract not loaded."
  /\ ~contract.bound
  /\ messageContent = <<" ">>

\* C12: no step of postMessage (the call, the submission being accepted or
\* rejected by the wallet, the confirmation settling or failing) changes the
\* feed cache; the composer text is emptied only in the step where tx.wait()
\* has resolved for a transaction that went through, and is kept as typed in
\* every other step of the post, the failing ones included.
C12_PostLeavesCacheAndClearsLate ==
  [][/\ (\/ postMessage
         \/ \E i \in DOMAIN submitting :
              postMessage_sent(i) \/ postMessage_rejected(i)
         \/ \E j \in DOMAIN confirmations :
              postMessage_waited(j) \/ postMessage_waitFailed(j))
        => messages' = messages
     /\ (\/ postMessage
         \/ \E i \in DOMAIN submitting :
              postMessage_sent(i) \/ postMessage_rejected(i)
         \/ \E j \in DOMAIN confirmations : postMessage_waitFailed(j))
        => messageContent' = messageContent
     /\ \A j \in DOMAIN confirmations :
          postMessage_waited(j) =>
            messageContent' = IF confirmations[j] THEN <<>> ELSE messageContent
    ]_vars

\* The client's post went through, its confirmation resolved and the composer
\* was emptied (the composer is read-only from the click to this point).
C12_Witness ==
  /\ \E k \in DOMAIN chainMessages : chainMessages[k].content = <<" ", "w">>
  /\ submitting = <<>>
  /\ confirmations = <<>>
  /\ \A k \in DOMAIN mempool : ~mempool[k].client
  /\ error = ""
  /\ ~loading
  /\ messageContent = <<>>

\* C13: when connectWallet succeeds the active account becomes accounts[0]
\* and a rebinding is triggered: right after the step the client either holds
\* a binding or is creating one (the only way it can come to hold one without
\* a further action of the user or the wallet).
C13_ConnectTriggersRebinding ==
  [][connectWallet_resolved =>
       /\ currentAccount' = walletAccount
       /\ \/ contract'.bound
          \/ initPc' \in {"eth_accounts", "provider.ready", "getSigner"}
          \/ binds' > 0]_vars

\* C14: a client started where a wallet provider exists has registered exactly
\* one accountsChanged handler and exactly one chainChanged handler, and the
\* mount effect's cleanup run from there leaves none of them on the provider.
C14_HandlersOnceAndRemoved ==
  (hasProvider /\ initPc # "unmounted") =>
    /\ accountsHandlers = 1
    /\ chainHandlers = 1
    /\ V2_MountEffect_cleanup(accountsHandlers) = 0
    /\ V2_MountEffect_cleanup(chainHandlers) = 0

\* The steps of the startup check, and the ways it can end.
StartupCheckStep ==
  Mount \/ init_accounts \/ init_ready \/ init_signer \/ init_catch

StartupOutcome_NoProvider ==
  /\ ~hasProvider
  /\ initPc = "unmounted"
  /\ error' # ""
  /\ currentAccount' = NULL
  /\ ~contract'.bound

StartupOutcome_Bound ==
  /\ initPc = "getSigner"
  /\ contract'.bound

StartupOutcome_AskConnect ==
  /\ walletAccount = NULL
  /\ currentAccount' = NULL
  /\ ~contract'.bound
  /\ error' = "Connect your MetaMask wallet to use the DApp."

StartupOutcome_Failed ==
  /\ currentAccount' = NULL
  /\ ~contract'.bound
  /\ error' = "Failed to initialize DApp."

C16_RenderedNewestFirst ==
  LET n == Len(chainMessages) - Len(listeners[1])
  IN /\ Len(RenderedMessages) = n
     /\ \A k \in 1..n :
          RenderedMessages[k] = Format(chainMessages)[n + 1 - k]
     /\ (n = 2 /\ chainMessages[1].content = Hello
               /\ chainMessages[2].content = World) =>
          /\ RenderedMessages[1].content = World
          /\ RenderedMessages[2].content = Hello

\* A has posted "hello", B has posted "world", both notifications delivered.
C16_Witness ==
  /\ Len(chainMessages) = 2
  /\ chainMessages[1].sender = "A" /\ chainMessages[1].content = Hello
  /\ chainMessages[2].sender = "B" /\ chainMessages[2].content = World
  /\ listeners[1] = <<>>
  /\ Len(RenderedMessages) = 2
  /\ RenderedMessages[1].sender = "B"

\* Violated by Spec: the effect-based client reaches the state FeedSpec
\* starts from.
FeedInitNotReached == ~FeedInit

\* C17: when a fetchAllMessages call completes successfully the cache is
\* exactly the sequence its getAllMessages call returned: the same length,
\* the same order, each entry with its record's sender, content and
\* timestamp, and nothing of the previous cache.
C17_FetchReplacesCache ==
  [][\A i \in DOMAIN fetches :
       fetchAllMessages_resolved(i) =>
         /\ Len(messages') = Len(fetches[i].snap)
         /\ \A k \in DOMAIN fetches[i].snap :
              /\ messages'[k].sender = fetches[i].snap[k].sender
              /\ messages'[k].content = fetches[i].snap[k].content
              /\ messages'[k].timestamp = fetches[i].snap[k].timestamp]_vars

\* Two notifications were delivered and the fetch then completed with the
\* one-record snapshot taken between the two posts.
C17_Witness ==
  /\ contract.bound
  /\ fetches = <<>>
  /\ delivered = {1, 2}
  /\ messageIds = <<1>>
  /\ Len(messages) = 1

\* A fetch or a post of the client has not settled yet.
OperationInFlight ==
  \/ fetches # <<>>
  \/ submitting # <<>>
  \/ confirmations # <<>>
  \/ \E k \in DOMAIN mempool : mempool[k].client

\* C18: whenever a fetch or a post is still in flight the loading flag is
\* true, so composer and post button are disabled; two operations that
\* overlap included.
C18_InFlightImpliesLoading ==
  OperationInFlight => (loading /\ ~ComposerEnabled /\ ~PostButtonEnabled)

\* C19: each time a binding is established a fetch is started for it and
\* loading is set (Unbound -> Fetching); with no post and no wallet
\* notification afterwards the fetch settles, and unless it failed the client
\* is then Ready: loading is false and the cache is the ledger's whole
\* history in append order.
C19_BindFetchReady ==
  /\ [][(contract' # contract /\ contract'.bound) =>
          /\ Len(fetches') = Len(fetches) + 1
          /\ Last(fetches').st = "requested"
          /\ loading']_vars
  /\ (contract.bound /\ fetches # <<>>) ~>
       /\ fetches = <<>>
       /\ ~loading
       /\ \/ messages = Format(chainMessages)
          \/ error = "Failed to fetch messages."

\* Ready on a ledger of two posts, after a fetch that succeeded.
C19_Witness ==
  /\ contract.bound
  /\ fetches = <<>>
  /\ ~loading
  /\ error = ""
  /\ Len(chainMessages) = 2
  /\ messages = Format(chainMessages)

\* A fetch or a post of the client fails in this step.
OperationFails ==
  \/ \E i \in DOMAIN fetches : fetchAllMessages_catch(i)
  \/ \E i \in DOMAIN submitting : postMessage_rejected(i)
  \/ \E j \in DOMAIN confirmations :
       \/ postMessage_waitFailed(j)
       \/ postMessage_waited(j) /\ ~confirmations[j]

PendingCalls == Len(fetches) + Len(submitting) + Len(confirmations)

\* C20: a failing fetch or post ends with a non-empty error and loading false,
\* leaves the cache as it was and issues no request: the failed call is gone
\* and nothing is sent to the contract in the step. Afterwards a fetch starts
\* only with a new binding and a post only with a call of postMessage.
C20_FailureEndsWithoutRetry ==
  [][/\ OperationFails =>
          /\ error' # ""
          /\ ~loading'
          /\ messages' = messages
          /\ PendingCalls' = PendingCalls - 1
          /\ mempool' = mempool
     /\ Len(fetches') > Len(fetches) => (contract' # contract /\ contract'.bound)
     /\ Len(submitting') > Len(submitting) => postMessage]_vars

\* A fetch of the bound client has failed and is over; the cache holds a
\* notified message.
C20_Witness ==
  /\ contract.bound
  /\ error = "Failed to fetch messages."
  /\ ~loading
  /\ fetches = <<>>
  /\ messages # <<>>

\* C21: in every state of the effect-based client, no binding implies an empty
\* cache: once a chainChanged or an empty accountsChanged has cleared the
\* session, neither a fetch still in flight nor a listener of the old binding
\* puts entries back before a new binding exists.
C21_UnboundImpliesEmptyCache ==
  ~contract.bound => messages = <<>>

====
